---- MODULE Spec2Model ----
(***************************************************************************)
(* RewriteQR: the createTime mutator (modifyCreateTime, the same function  *)
(* in both versions of the mutator page's script) and the batch QR         *)
(* analyzer (class QRAnalyzer).                                            *)
(*                                                                         *)
(* Texts are sequences of one-character strings.  The specifications:      *)
(*   SpecMutate    modifyCreateTime applied to decoded texts               *)
(*   SpecParse     QRAnalyzer.parseQRContent applied to decoded texts      *)
(*   Spec          QRAnalyzer.analyzeFiles / displayResults over a batch,  *)
(*                 one analyzeFiles at a time                              *)
(*   SpecOverlap   the analyzer page with a click taken while an           *)
(*                 analyzeFiles is still awaiting a file                   *)
(*   SpecRoundTrip parseQRContent on a text and on what modifyCreateTime   *)
(*                 made of it                                              *)
(***************************************************************************)
EXTENDS Integers, Sequences, FiniteSets, TLC

VARIABLES
    mtInput,      \* mutator: the decoded text first given to modifyCreateTime
    mtOut,        \* mutator: results of the successive modifyCreateTime calls
    deadline,     \* mutator: texts of the .deadline elements appended to statusArea
    pqContent,    \* parser: the content given to parseQRContent
    pqResult,     \* parser: <<>> before the call, <<record>> after it
    rtResult,     \* parser: the same for the text modifyCreateTime returned
    pc,           \* analyzer: position of analyzeFiles
    nFiles,       \* analyzer: files.length of the running batch
    fileIdx,      \* analyzer: loop variable i (0-based)
    qrData,       \* analyzer: this.qrData
    resultsArea,  \* analyzer: what displayResults put into #results-area
    statusArea,   \* analyzer: last showStatus message kind
    later         \* analyzer: pc, files.length and i of a second analyzeFiles
                  \* started while the first one is in flight

vars == <<mtInput, mtOut, deadline, pqContent, pqResult, rtResult,
          pc, nFiles, fileIdx, qrData, resultsArea, statusArea, later>>

mutVars == <<mtInput, mtOut, deadline>>
parseVars == <<pqContent, pqResult, rtResult>>
anaVars == <<pc, nFiles, fileIdx, qrData, resultsArea, statusArea, later>>

(***************************************************************************)
(* Bounds                                                                  *)
(***************************************************************************)
\* how many times in a row modifyCreateTime is applied to its own output
MaxApply == 2
\* largest batch of files given to analyzeFiles
MaxFiles == 3

(***************************************************************************)
(* Characters and strings                                                  *)
(***************************************************************************)
Digits == {"0", "1", "2", "3", "4", "5", "6", "7", "8", "9"}

DigitSeq == <<"0", "1", "2", "3", "4", "5", "6", "7", "8", "9">>

DigitVal(c) == (CHOOSE k \in 1..10 : DigitSeq[k] = c) - 1

IsDigit(c) == c \in Digits

AllDigits(s) == \A k \in 1..Len(s) : IsDigit(s[k])

\* s occurs in text starting at position i
StartsAt(text, i, s) ==
    /\ i >= 1
    /\ i + Len(s) - 1 <= Len(text)
    /\ \A k \in 1..Len(s) : text[i + k - 1] = s[k]

S_createTimeEq == <<"c", "r", "e", "a", "t", "e", "T", "i", "m", "e", "=">>

S_createTime == <<"c", "r", "e", "a", "t", "e", "T", "i", "m", "e">>

(***************************************************************************)
(* modifyCreateTime (the mutator)                                          *)
(***************************************************************************)
\* the regex, anchored at position i: a looser variant used as a mutant
\* (any character accepted as the date/time separator)
RegexMatchAtAnySep(text, i) ==
    /\ StartsAt(text, i, S_createTimeEq)
    /\ i + 29 <= Len(text)
    /\ AllDigits(SubSeq(text, i + 11, i + 14)) /\ text[i + 15] = "-"
    /\ AllDigits(SubSeq(text, i + 16, i + 17)) /\ text[i + 18] = "-"
    /\ AllDigits(SubSeq(text, i + 19, i + 20))
    /\ AllDigits(SubSeq(text, i + 22, i + 23))
    /\ text[i + 24] = ":" /\ AllDigits(SubSeq(text, i + 25, i + 26))
    /\ text[i + 27] = ":" /\ AllDigits(SubSeq(text, i + 28, i + 29))

\* /createTime=([0-9]{4}-[0-9]{2}-[0-9]{2})([ T])([0-9]{2})(:[0-9]{2}:[0-9]{2})/
\* matches the 30 characters that start at position i
RegexMatchAt(text, i) ==
    /\ StartsAt(text, i, S_createTimeEq)
    /\ i + 29 <= Len(text)
    /\ AllDigits(SubSeq(text, i + 11, i + 14)) /\ text[i + 15] = "-"
    /\ AllDigits(SubSeq(text, i + 16, i + 17)) /\ text[i + 18] = "-"
    /\ AllDigits(SubSeq(text, i + 19, i + 20))
    /\ text[i + 21] \in {" ", "T"}
    /\ AllDigits(SubSeq(text, i + 22, i + 23))
    /\ text[i + 24] = ":" /\ AllDigits(SubSeq(text, i + 25, i + 26))
    /\ text[i + 27] = ":" /\ AllDigits(SubSeq(text, i + 28, i + 29))

\* text.match(regex): the index of the leftmost match, 0 when there is none
RegexMatch(text) ==
    IF \E i \in 1..Len(text) : RegexMatchAt(text, i)
    THEN CHOOSE i \in 1..Len(text) :
            /\ RegexMatchAt(text, i)
            /\ \A j \in 1..(i - 1) : ~RegexMatchAt(text, j)
    ELSE 0

\* parseInt(hourStr, 10) of a string of digits
RECURSIVE parseInt(_)
parseInt(s) ==
    IF s = <<>> THEN 0
    ELSE 10 * parseInt(SubSeq(s, 1, Len(s) - 1)) + DigitVal(s[Len(s)])

\* mutant: the hour incremented without the reduction modulo 24
NextHourNoWrap(hourStr) == parseInt(hourStr) + 1

\* (parseInt(hourStr, 10) + 1) % 24
NextHour(hourStr) == (parseInt(hourStr) + 1) % 24

\* Number.prototype.toString() of a non-negative integer
RECURSIVE toString(_)
toString(n) ==
    IF n < 10 THEN <<DigitSeq[n + 1]>>
    ELSE toString(n \div 10) \o <<DigitSeq[(n % 10) + 1]>>

\* s.padStart(2, "0")
padStart2(s) == IF Len(s) >= 2 THEN s ELSE IF Len(s) = 1 THEN <<"0">> \o s ELSE <<"0", "0">>

\* the groups of the match at i and the new time string
NewTime(text, i) ==
    LET datePart == SubSeq(text, i + 11, i + 20)
        sep == SubSeq(text, i + 21, i + 21)
        hourStr == SubSeq(text, i + 22, i + 23)
        rest == SubSeq(text, i + 24, i + 29)
        newHourStr == padStart2(toString(NextHour(hourStr)))
    IN  datePart \o sep \o newHourStr \o rest

\* mutant of StringReplace: the replacement written over every match
\* (a regex with the g flag); the replacement has the length of a match
RECURSIVE ReplaceEveryFrom(_, _, _)
ReplaceEveryFrom(text, from, repl) ==
    IF from + 29 > Len(text) THEN text
    ELSE IF RegexMatchAt(text, from)
         THEN ReplaceEveryFrom(SubSeq(text, 1, from - 1) \o repl
                                 \o SubSeq(text, from + 30, Len(text)),
                               from + 30, repl)
         ELSE ReplaceEveryFrom(text, from + 1, repl)

StringReplaceAll(text, i, repl) == ReplaceEveryFrom(text, i, repl)

\* text.replace(regex, repl) for a regex without the g flag whose leftmost
\* match is the 30 characters at i; repl holds no "$" pattern
StringReplace(text, i, repl) ==
    SubSeq(text, 1, i - 1) \o repl \o SubSeq(text, i + 30, Len(text))

\* newTime.replace("T", " "): the first "T" replaced
ReplaceFirstT(s) ==
    IF \E k \in 1..Len(s) : s[k] = "T"
    THEN LET k == CHOOSE k \in 1..Len(s) :
                     s[k] = "T" /\ \A j \in 1..(k - 1) : s[j] # "T"
         IN  [s EXCEPT ![k] = " "]
    ELSE s

modifyCreateTime(text) ==
    LET i == RegexMatch(text)
    IN  IF i # 0
        THEN StringReplace(text, i, S_createTimeEq \o NewTime(text, i))
        ELSE text

\* the displayDeadline call made inside modifyCreateTime
displayDeadline(text, shown) ==
    LET i == RegexMatch(text)
    IN  IF i # 0 THEN Append(shown, ReplaceFirstT(NewTime(text, i))) ELSE shown

(***************************************************************************)
(* Host string functions used by QRAnalyzer.parseQRContent                 *)
(***************************************************************************)
\* the characters of the model with their UTF-16 code units
AlphabetChars ==
    <<" ", "%", "&", "+", "-", "/", "0", "1", "2", "3", "4", "5", "6", "7",
      "8", "9", ":", "=", "?", "B", "D", "T", "Z", "_", "a", "b", "c", "d",
      "e", "g", "h", "i", "m", "n", "r", "s", "t", "u", "x">>

AlphabetCodes ==
    <<32, 37, 38, 43, 45, 47, 48, 49, 50, 51, 52, 53, 54, 55,
      56, 57, 58, 61, 63, 66, 68, 84, 90, 95, 97, 98, 99, 100,
      101, 103, 104, 105, 109, 110, 114, 115, 116, 117, 120>>

Alphabet == {AlphabetChars[k] : k \in 1..Len(AlphabetChars)}

\* stands for any character that is not in the alphabet
OtherChar == "<other>"

CharCode == [c \in Alphabet |->
                AlphabetCodes[CHOOSE k \in 1..Len(AlphabetChars) : AlphabetChars[k] = c]]

CharOfCode(code) ==
    IF \E c \in Alphabet : CharCode[c] = code
    THEN CHOOSE c \in Alphabet : CharCode[c] = code
    ELSE OtherChar

\* the hex digits among the characters of the alphabet
HexDigits == Digits \cup {"B", "D", "a", "b", "c", "d", "e"}

HexVal(c) ==
    IF c \in Digits THEN DigitVal(c)
    ELSE CASE c \in {"a"} -> 10
           [] c \in {"B", "b"} -> 11
           [] c \in {"c"} -> 12
           [] c \in {"D", "d"} -> 13
           [] OTHER -> 14

\* s.includes(c) for a one-character c
Includes(s, c) == \E k \in 1..Len(s) : s[k] = c

\* s.indexOf(c), 1-based; 0 when c does not occur
IndexOf(s, c) ==
    IF Includes(s, c)
    THEN CHOOSE k \in 1..Len(s) : s[k] = c /\ \A j \in 1..(k - 1) : s[j] # c
    ELSE 0

\* s.split(c): the pieces between the occurrences of c (one piece at least)
RECURSIVE Split(_, _)
Split(s, c) ==
    LET k == IndexOf(s, c)
    IN  IF k = 0 THEN <<s>>
        ELSE <<SubSeq(s, 1, k - 1)>> \o Split(SubSeq(s, k + 1, Len(s)), c)

\* s.split(c, limit): the first limit pieces of s.split(c)
SplitLimit(s, c, limit) ==
    LET all == Split(s, c)
    IN  SubSeq(all, 1, IF Len(all) < limit THEN Len(all) ELSE limit)

\* a "%" at k followed by two hex digits
IsEscapeAt(s, k) ==
    /\ s[k] = "%"
    /\ k + 2 <= Len(s)
    /\ s[k + 1] \in HexDigits
    /\ s[k + 2] \in HexDigits

EscapeCode(s, k) == 16 * HexVal(s[k + 1]) + HexVal(s[k + 2])

\* decodeURIComponent(s): [ok |-> FALSE] stands for the URIError it throws on
\* a "%" that is not followed by two hex digits, or on a byte over 0x7F that
\* starts no UTF-8 sequence of the text
RECURSIVE decodeURIComponent(_)
decodeURIComponent(s) ==
    IF s = <<>> THEN [ok |-> TRUE, v |-> <<>>]
    ELSE IF s[1] # "%"
         THEN LET r == decodeURIComponent(Tail(s))
              IN  IF r.ok THEN [ok |-> TRUE, v |-> <<s[1]>> \o r.v] ELSE r
         ELSE IF IsEscapeAt(s, 1) /\ EscapeCode(s, 1) < 128
              THEN LET r == decodeURIComponent(SubSeq(s, 4, Len(s)))
                   IN  IF r.ok
                       THEN [ok |-> TRUE, v |-> <<CharOfCode(EscapeCode(s, 1))>> \o r.v]
                       ELSE r
              ELSE [ok |-> FALSE, v |-> <<>>]

\* the percent-decoding of the URL standard: a "%" that starts no escape is
\* kept as it is, and nothing is thrown
RECURSIVE PercentDecode(_)
PercentDecode(s) ==
    IF s = <<>> THEN <<>>
    ELSE IF IsEscapeAt(s, 1)
         THEN <<CharOfCode(EscapeCode(s, 1))>> \o PercentDecode(SubSeq(s, 4, Len(s)))
         ELSE <<s[1]>> \o PercentDecode(Tail(s))

PlusToSpace(s) == [k \in 1..Len(s) |-> IF s[k] = "+" THEN " " ELSE s[k]]

\* new URLSearchParams(paramString) iterated: the list of [key, value] of the
\* application/x-www-form-urlencoded parser (empty pieces skipped, a piece
\* without "=" is a key with the empty value, split at the first "=")
RECURSIVE FormPairs(_)
FormPairs(pieces) ==
    IF pieces = <<>> THEN <<>>
    ELSE LET p == Head(pieces)
             k == IndexOf(p, "=")
             name == IF k = 0 THEN p ELSE SubSeq(p, 1, k - 1)
             value == IF k = 0 THEN <<>> ELSE SubSeq(p, k + 1, Len(p))
         IN  (IF p = <<>> THEN <<>>
              ELSE <<[key |-> PercentDecode(PlusToSpace(name)),
                      value |-> PercentDecode(PlusToSpace(value))]>>)
             \o FormPairs(Tail(pieces))

URLSearchParams(paramString) ==
    LET init == IF paramString # <<>> /\ paramString[1] = "?"
                THEN Tail(paramString) ELSE paramString
    IN  FormPairs(Split(init, "&"))

\* obj[key] = value on a plain object
EmptyParams == [k \in {} |-> <<>>]

SetParam(params, key, value) ==
    [k \in (DOMAIN params) \cup {key} |-> IF k = key THEN value ELSE params[k]]

(***************************************************************************)
(* QRAnalyzer.parseTimeString                                              *)
(***************************************************************************)
\* timeString.replace(/[TZ]/g, ' ')
ReplaceTZ(s) == [k \in 1..Len(s) |-> IF s[k] \in {"T", "Z"} THEN " " ELSE s[k]]

\* String.prototype.trim() (the only white space of the alphabet is " ")
RECURSIVE TrimStart(_)
TrimStart(s) == IF s # <<>> /\ s[1] = " " THEN TrimStart(Tail(s)) ELSE s

RECURSIVE TrimEnd(_)
TrimEnd(s) ==
    IF s # <<>> /\ s[Len(s)] = " " THEN TrimEnd(SubSeq(s, 1, Len(s) - 1)) ELSE s

Trim(s) == TrimEnd(TrimStart(s))

IsLeapYear(y) == (y % 4 = 0 /\ y % 100 # 0) \/ y % 400 = 0

DaysInMonth(y, mo) ==
    IF mo = 2 THEN (IF IsLeapYear(y) THEN 29 ELSE 28)
    ELSE IF mo \in {4, 6, 9, 11} THEN 30 ELSE 31

RECURSIVE DaysBeforeMonth(_, _)
DaysBeforeMonth(y, mo) ==
    IF mo <= 1 THEN 0 ELSE DaysBeforeMonth(y, mo - 1) + DaysInMonth(y, mo - 1)

\* days from 1 January 2024 to 1 January of year y: instant 0 of the model is
\* 2024-01-01 00:00:00 local time (Date.getTime() counts from 1970; only
\* differences of instants are used)
RECURSIVE DaysBeforeYear(_)
DaysBeforeYear(y) ==
    IF y = 2024 THEN 0
    ELSE IF y > 2024
         THEN DaysBeforeYear(y - 1) + (IF IsLeapYear(y - 1) THEN 366 ELSE 365)
         ELSE DaysBeforeYear(y + 1) - (IF IsLeapYear(y) THEN 366 ELSE 365)

\* new Date(cleanTime) for the form "YYYY-MM-DD HH:MM:SS" read as local time:
\* [valid, timestamp]; every other text of the model is an Invalid Date
DateParse(s) ==
    LET shaped == /\ Len(s) = 19
                  /\ AllDigits(SubSeq(s, 1, 4)) /\ s[5] = "-"
                  /\ AllDigits(SubSeq(s, 6, 7)) /\ s[8] = "-"
                  /\ AllDigits(SubSeq(s, 9, 10)) /\ s[11] = " "
                  /\ AllDigits(SubSeq(s, 12, 13)) /\ s[14] = ":"
                  /\ AllDigits(SubSeq(s, 15, 16)) /\ s[17] = ":"
                  /\ AllDigits(SubSeq(s, 18, 19))
        y == parseInt(SubSeq(s, 1, 4))
        mo == parseInt(SubSeq(s, 6, 7))
        d == parseInt(SubSeq(s, 9, 10))
        h == parseInt(SubSeq(s, 12, 13))
        mi == parseInt(SubSeq(s, 15, 16))
        sec == parseInt(SubSeq(s, 18, 19))
        inRange == /\ mo \in 1..12 /\ d \in 1..DaysInMonth(y, mo)
                   /\ h \in 0..23 /\ mi \in 0..59 /\ sec \in 0..59
    IN  IF shaped /\ inRange
        THEN [valid |-> TRUE,
              timestamp |-> ((((DaysBeforeYear(y) + DaysBeforeMonth(y, mo) + d - 1) * 24
                               + h) * 60 + mi) * 60 + sec) * 1000]
        ELSE [valid |-> FALSE, timestamp |-> 0]

\* parseTimeString: parsed is TRUE for a Date object, FALSE for null
parseTimeString(timeString) ==
    LET cleanTime == Trim(ReplaceTZ(timeString))
        date == DateParse(cleanTime)
    IN  IF ~date.valid
        THEN [original |-> timeString, parsed |-> FALSE, timestamp |-> 0]
        ELSE [original |-> timeString, parsed |-> TRUE, timestamp |-> date.timestamp]

(***************************************************************************)
(* QRAnalyzer.parseQRContent                                               *)
(***************************************************************************)
NoError == "null"

ParseError == "parse_failed"

\* for (const [key, value] of params) result.params[key] = value
RECURSIVE AssignPairs(_, _)
AssignPairs(params, pairs) ==
    IF pairs = <<>> THEN params
    ELSE AssignPairs(SetParam(params, Head(pairs).key, Head(pairs).value), Tail(pairs))

\* the loop over content.split('&') of the key=value branch; threw is TRUE
\* when a decodeURIComponent threw, which leaves the loop at once
RECURSIVE PairLoop(_, _)
PairLoop(params, pairs) ==
    IF pairs = <<>> THEN [params |-> params, threw |-> FALSE]
    ELSE LET pair == Head(pairs)
         IN  IF Includes(pair, "=")
             THEN LET kv == SplitLimit(pair, "=", 2)
                      key == decodeURIComponent(kv[1])
                      value == decodeURIComponent(kv[2])
                  IN  IF key.ok /\ value.ok
                      THEN PairLoop(SetParam(params, key.v, value.v), Tail(pairs))
                      ELSE [params |-> params, threw |-> TRUE]
             ELSE PairLoop(params, Tail(pairs))

\* result.params after the if / else if of the try block
ExtractParams(content) ==
    IF Includes(content, "?")
    THEN LET urlParts == Split(content, "?")
             paramString == urlParts[2]
         IN  [params |-> AssignPairs(EmptyParams, URLSearchParams(paramString)),
              threw |-> FALSE]
    ELSE IF Includes(content, "=")
         THEN PairLoop(EmptyParams, Split(content, "&"))
         ELSE [params |-> EmptyParams, threw |-> FALSE]

\* parsedTime is <<>> when the property is not set
parseQRContent(content, fileName) ==
    LET ex == ExtractParams(content)
        hasTime == /\ ~ex.threw
                   /\ S_createTime \in DOMAIN ex.params
                   /\ ex.params[S_createTime] # <<>>
    IN  [fileName |-> fileName,
         rawContent |-> <<content>>,
         params |-> ex.params,
         error |-> IF ex.threw THEN ParseError ELSE NoError,
         parsedTime |-> IF hasTime
                        THEN <<parseTimeString(ex.params[S_createTime])>>
                        ELSE <<>>]

(***************************************************************************)
(* QRAnalyzer.createComparisonResults / analyzeTimeDifferences             *)
(***************************************************************************)
MsPerMinute == 60000

MsPerHour == 3600000

\* a < b for strings compared by UTF-16 code units (the default sort order)
RECURSIVE StringLess(_, _)
StringLess(a, b) ==
    IF b = <<>> THEN FALSE
    ELSE IF a = <<>> THEN TRUE
    ELSE IF a[1] = b[1] THEN StringLess(Tail(a), Tail(b))
    ELSE CharCode[a[1]] < CharCode[b[1]]

\* Array.from(allParams).sort()
RECURSIVE SortedKeys(_)
SortedKeys(keys) ==
    IF keys = {} THEN <<>>
    ELSE LET least == CHOOSE k \in keys : \A o \in keys \ {k} : StringLess(k, o)
         IN  <<least>> \o SortedKeys(keys \ {least})

\* the union of Object.keys(data.params) over this.qrData
AllParams(qd) == UNION {DOMAIN qd[k].params : k \in 1..Len(qd)}

\* data.params[param] || ''
ParamOrEmpty(data, param) ==
    IF param \in DOMAIN data.params THEN data.params[param] ELSE <<>>

\* mutant: only the records that have the parameter are compared
IsUniformPresentOnly(qd, param) ==
    \A j, k \in 1..Len(qd) :
        (param \in DOMAIN qd[j].params /\ param \in DOMAIN qd[k].params)
            => qd[j].params[param] = qd[k].params[param]

\* values.every(v => v === values[0])
IsUniform(qd, param) ==
    LET values == [k \in 1..Len(qd) |-> ParamOrEmpty(qd[k], param)]
    IN  \A k \in 1..Len(values) : values[k] = values[1]

ComparisonRow(qd, param) ==
    [param |-> param,
     values |-> [k \in 1..Len(qd) |-> ParamOrEmpty(qd[k], param)],
     highlight |-> ~IsUniform(qd, param)]

\* mutant: Math.floor in the place of Math.round
MathRoundFloor(x, d) == x \div d

\* Math.round(x / d) for integers x and d > 0: the nearest integer, a half
\* rounded up
MathRound(x, d) == (2 * x + d) \div (2 * d)

\* data.parsedTime && data.parsedTime.parsed
HasParsedTime(data) == data.parsedTime # <<>> /\ data.parsedTime[1].parsed

\* this.qrData.filter(...).map(...)
RECURSIVE TimesData(_)
TimesData(qd) ==
    IF qd = <<>> THEN <<>>
    ELSE (IF HasParsedTime(Head(qd))
          THEN <<[fileName |-> Head(qd).fileName,
                  timestamp |-> Head(qd).parsedTime[1].timestamp]>>
          ELSE <<>>) \o TimesData(Tail(qd))

\* mutant: an element is put in front of the elements equal to it
RECURSIVE InsertBeforeEqual(_, _)
InsertBeforeEqual(sorted, e) ==
    IF sorted = <<>> THEN <<e>>
    ELSE IF Head(sorted).timestamp - e.timestamp >= 0
         THEN <<e>> \o sorted
         ELSE <<Head(sorted)>> \o InsertBeforeEqual(Tail(sorted), e)

\* one step of a stable sort with the comparator a.time.timestamp -
\* b.time.timestamp: e goes behind every element that is not greater
RECURSIVE InsertSorted(_, _)
InsertSorted(sorted, e) ==
    IF sorted = <<>> THEN <<e>>
    ELSE IF Head(sorted).timestamp - e.timestamp > 0
         THEN <<e>> \o sorted
         ELSE <<Head(sorted)>> \o InsertSorted(Tail(sorted), e)

\* timesData.sort((a, b) => a.time.timestamp - b.time.timestamp)
RECURSIVE SortByTimestamp(_)
SortByTimestamp(td) ==
    IF td = <<>> THEN <<>>
    ELSE InsertSorted(SortByTimestamp(SubSeq(td, 1, Len(td) - 1)), td[Len(td)])

\* one <li> of the list: what the line shows is [unit, amount]
TimeDelta(current, next) ==
    LET diffMs == next.timestamp - current.timestamp
        diffMinutes == MathRound(diffMs, MsPerMinute)
        diffHours == MathRound(diffMs, MsPerHour)
    IN  [from |-> current.fileName, to |-> next.fileName, diffMs |-> diffMs,
         unit |-> IF diffHours > 0 THEN "hours" ELSE "minutes",
         amount |-> IF diffHours > 0 THEN diffHours ELSE diffMinutes]

\* note is "not_enough" for the paragraph shown with fewer than 2 times
analyzeTimeDifferences(qd) ==
    LET timesData == TimesData(qd)
        sorted == SortByTimestamp(timesData)
    IN  IF Len(timesData) < 2
        THEN [note |-> "not_enough", deltas |-> <<>>]
        ELSE [note |-> "list",
              deltas |-> [k \in 1..(Len(sorted) - 1) |-> TimeDelta(sorted[k], sorted[k + 1])]]

\* this.qrData.length < 2
TooFewRecords(qd) == Len(qd) < 2

\* insufficient is TRUE for the paragraph shown instead of the comparison;
\* header is the row of file names, rows the <tbody> of the table
createComparisonResults(qd) ==
    IF TooFewRecords(qd)
    THEN [insufficient |-> TRUE, header |-> <<>>, rows |-> <<>>,
          note |-> "none", deltas |-> <<>>]
    ELSE LET keys == SortedKeys(AllParams(qd))
             timeAnalysis == analyzeTimeDifferences(qd)
         IN  [insufficient |-> FALSE,
              header |-> IF keys = <<>> THEN <<>>
                         ELSE [k \in 1..Len(qd) |-> qd[k].fileName],
              rows |-> [k \in 1..Len(keys) |-> ComparisonRow(qd, keys[k])],
              note |-> timeAnalysis.note,
              deltas |-> timeAnalysis.deltas]

\* one .qr-item per record: the error or success line and the raw content
createIndividualResults(qd) ==
    [k \in 1..Len(qd) |->
        [fileName |-> qd[k].fileName,
         error |-> qd[k].error,
         rawContent |-> qd[k].rawContent]]

\* what displayResults assigns to resultsArea.innerHTML
displayResults(qd) ==
    [shown |-> TRUE,
     individual |-> createIndividualResults(qd),
     comparison |-> createComparisonResults(qd)]

\* resultsArea.innerHTML = ''
EmptyResults ==
    [shown |-> FALSE, individual |-> <<>>,
     comparison |-> [insufficient |-> FALSE, header |-> <<>>, rows |-> <<>>,
                     note |-> "none", deltas |-> <<>>]]

(***************************************************************************)
(* Inputs                                                                  *)
(***************************************************************************)
\* decoded texts given to modifyCreateTime: an optional prefix, a createTime
\* field put together from a date, a separator, an hour and a minute:second
\* part (well-shaped or not), an optional second field, an optional suffix
MutPre ==
    {<<>>,
     <<"i", "d", "=", "1", "&">>,
     <<"c", "r", "e", "a", "t", "e", "T", "i", "m", "e", "=">>}

MutDate ==
    {<<"2", "0", "2", "4", "-", "0", "1", "-", "3", "1">>,
     <<"2", "0", "2", "4", "/", "0", "1", "/", "3", "1">>,
     <<"0", "2", "4", "-", "0", "1", "-", "3", "1">>}

MutSep ==
    {<<" ">>,
     <<"T">>,
     <<"_">>}

MutHour ==
    {<<"0", "0">>,
     <<"0", "5">>,
     <<"0", "9">>,
     <<"2", "3">>,
     <<"9", "9">>,
     <<"1", "2", "3">>,
     <<"5">>}

MutRest ==
    {<<":", "3", "0", ":", "5", "9">>,
     <<":", "3", "0">>}

MutSecond ==
    {<<>>,
     <<"&", "c", "r", "e", "a", "t", "e", "T", "i", "m", "e", "=", "2", "0", "2", "4", "-", "0", "1", "-", "3", "1", "T", "0", "5", ":", "0", "0", ":", "0", "0">>,
     <<"&", "c", "r", "e", "a", "t", "e", "T", "i", "m", "e", "=", "2", "0", "2", "4", "-", "0", "1", "-", "3", "1", " ", "5", ":", "0", "0">>}

MutPost ==
    {<<>>,
     <<"&", "i", "d", "=", "1">>,
     <<"0">>}

MutInputs ==
    {pre \o S_createTimeEq \o d \o sp \o h \o r \o snd \o post :
        pre \in MutPre, d \in MutDate, sp \in MutSep, h \in MutHour,
        r \in MutRest, snd \in MutSecond, post \in MutPost}
    \cup {<<>>,
     <<"n", "o", " ", "s", "u", "c", "h", " ", "f", "i", "e", "l", "d", " ", "h", "e", "r", "e">>,
     <<"i", "d", "=", "1", "&", "s", "i", "g", "n", "a", "t", "u", "r", "e", "=", "a", "b">>}

\* decoded texts given to parseQRContent: a prefix and three segments joined
\* by "&"
ParsePre ==
    {<<>>,
     <<"?">>,
     <<"u", "?">>}

ParseSeg ==
    {<<"a", "=", "1">>,
     <<"a", "=", "2">>,
     <<"s", "=", "x", "=", "=">>,
     <<"b">>,
     <<>>,
     <<"b", "=", "%">>,
     <<"b", "=", "%", "3", "D", "1">>,
     <<"c", "=", "1", "?", "d", "=", "2">>,
     <<"a", "+", "b", "=", "1">>}

ParseInputs ==
    {pre \o s1 \o <<"&">> \o s2 \o <<"&">> \o s3 :
        pre \in ParsePre, s1 \in ParseSeg, s2 \in ParseSeg, s3 \in ParseSeg}
    \cup {pre \o s1 : pre \in ParsePre, s1 \in ParseSeg}
    \cup {<<"h", "i", " ", "t", "h", "e", "r", "e">>}

\* texts the decoder gives for the files of a batch
AnalyzerContents ==
    {<<"c", "r", "e", "a", "t", "e", "T", "i", "m", "e", "=", "2", "0", "2", "4", "-", "0", "1", "-", "0", "1", " ", "1", "0", ":", "0", "0", ":", "0", "0", "&", "s", "i", "g", "n", "a", "t", "u", "r", "e", "=", "a", "b">>,
     <<"c", "r", "e", "a", "t", "e", "T", "i", "m", "e", "=", "2", "0", "2", "4", "-", "0", "1", "-", "0", "1", " ", "1", "0", ":", "0", "0", ":", "0", "0", "&", "s", "i", "g", "n", "a", "t", "u", "r", "e", "=", "c", "d">>,
     <<"u", "?", "c", "r", "e", "a", "t", "e", "T", "i", "m", "e", "=", "2", "0", "2", "4", "-", "0", "1", "-", "0", "1", "T", "1", "0", ":", "3", "0", ":", "0", "0", "&", "i", "d", "=", "1">>,
     <<"c", "r", "e", "a", "t", "e", "T", "i", "m", "e", "=", "2", "0", "2", "4", "-", "0", "1", "-", "0", "1", " ", "1", "2", ":", "3", "0", ":", "0", "0">>,
     <<"c", "r", "e", "a", "t", "e", "T", "i", "m", "e", "=", "2", "0", "2", "4", "-", "0", "1", "-", "0", "1", " ", "1", "0", ":", "5", "9", ":", "5", "9", "&", "i", "d", "=", "1">>,
     <<"c", "r", "e", "a", "t", "e", "T", "i", "m", "e", "=", "2", "0", "2", "4", "-", "0", "1", "-", "0", "1", " ", "1", "1", ":", "3", "0", ":", "0", "0">>,
     <<"c", "r", "e", "a", "t", "e", "T", "i", "m", "e", "=", "b", "a", "d", "&", "i", "d", "=", "1">>,
     <<"h", "i">>,
     <<"i", "d", "=", "1", "&", "x", "=", "%">>}

(***************************************************************************)
(* SpecMutate: extendQRCodeDeadline on a decoded text, then on the text of *)
(* the code it generated                                                   *)
(***************************************************************************)
MutRest0 == /\ mtInput = <<>> /\ mtOut = <<>> /\ deadline = <<>>

ParseRest0 == /\ pqContent = <<>> /\ pqResult = <<>> /\ rtResult = <<>>

\* no second analyzeFiles
NoLater == [pc |-> "idle", nFiles |-> 0, fileIdx |-> 0]

AnaRest0 ==
    /\ pc = "idle" /\ nFiles = 0 /\ fileIdx = 0 /\ qrData = <<>>
    /\ resultsArea = EmptyResults /\ statusArea = "none"
    /\ later = NoLater

\* the text the next call is given
MutCurrent == IF mtOut = <<>> THEN mtInput ELSE mtOut[Len(mtOut)]

InitMutate ==
    /\ mtInput \in MutInputs
    /\ mtOut = <<>>
    /\ deadline = <<>>
    /\ ParseRest0 /\ AnaRest0

\* clearResults removes the old .deadline elements, modifyCreateTime appends
\* the new one and returns the text that is encoded again
ExtendQRCodeDeadline ==
    /\ Len(mtOut) < MaxApply
    /\ mtOut' = Append(mtOut, modifyCreateTime(MutCurrent))
    /\ deadline' = displayDeadline(MutCurrent, <<>>)
    /\ UNCHANGED <<mtInput, parseVars, anaVars>>

NextMutate == ExtendQRCodeDeadline

SpecMutate == InitMutate /\ [][NextMutate]_vars

(***************************************************************************)
(* SpecParse: parseQRContent on a decoded text                             *)
(***************************************************************************)
InitParse ==
    /\ pqContent \in ParseInputs
    /\ pqResult = <<>>
    /\ rtResult = <<>>
    /\ MutRest0 /\ AnaRest0

ParseContent ==
    /\ pqResult = <<>>
    /\ pqResult' = <<parseQRContent(pqContent, 1)>>
    /\ UNCHANGED <<pqContent, rtResult, mutVars, anaVars>>

NextParse == ParseContent

SpecParse == InitParse /\ [][NextParse]_vars

(***************************************************************************)
(* Spec: the analyzer page.  A file's name is its position in the batch.   *)
(* A click is taken when no analyzeFiles is in flight.                     *)
(***************************************************************************)
DecodeError == "decode_failed"

ReadError == "read_failed"

ErrorRecord(fileName, error) ==
    [fileName |-> fileName, error |-> error, rawContent |-> <<>>,
     params |-> EmptyParams, parsedTime |-> <<>>]

Init ==
    /\ pc = "idle" /\ nFiles = 0 /\ fileIdx = 0 /\ qrData = <<>>
    /\ resultsArea = EmptyResults /\ statusArea = "none"
    /\ later = NoLater
    /\ MutRest0 /\ ParseRest0

\* the click handler with no file selected
ClickNoFiles ==
    /\ pc \in {"idle", "done"}
    /\ statusArea' = "warning_select"
    /\ UNCHANGED <<pc, nFiles, fileIdx, qrData, resultsArea, later, mutVars, parseVars>>

\* the click handler with n files: analyzeFiles up to its first await
ClickAnalyze ==
    /\ pc \in {"idle", "done"}
    /\ \E n \in 1..MaxFiles :
        /\ nFiles' = n
        /\ fileIdx' = 0
        /\ qrData' = <<>>
        /\ resultsArea' = EmptyResults
        /\ statusArea' = "warning_processing"
        /\ pc' = "read"
    /\ UNCHANGED <<later, mutVars, parseVars>>

\* the end of one pass of the loop with the record it pushed: the next file
\* is read, or after the last file the results are displayed
PushAndContinue(rec) ==
    LET qd == Append(qrData, rec)
    IN  /\ qrData' = qd
        /\ fileIdx' = fileIdx + 1
        /\ IF fileIdx + 1 < nFiles
           THEN /\ pc' = "read"
                /\ statusArea' = "warning_processing"
                /\ UNCHANGED resultsArea
           ELSE /\ pc' = "done"
                /\ resultsArea' = displayResults(qd)
                /\ statusArea' = "success"
        /\ UNCHANGED <<nFiles, later, mutVars, parseVars>>

\* readFileAsync resolves: decodeQRCode is awaited
ReadResolve ==
    /\ pc = "read"
    /\ pc' = "decode"
    /\ UNCHANGED <<nFiles, fileIdx, qrData, resultsArea, statusArea, later, mutVars, parseVars>>

\* readFileAsync rejects: the catch block pushes the error record
ReadReject ==
    /\ pc = "read"
    /\ PushAndContinue(ErrorRecord(fileIdx + 1, ReadError))

\* decodeQRCode resolves with a text
DecodeResolve ==
    /\ pc = "decode"
    /\ \E content \in AnalyzerContents :
        PushAndContinue(parseQRContent(content, fileIdx + 1))

\* decodeQRCode resolves with null (or jsQR found the empty text)
DecodeNull ==
    /\ pc = "decode"
    /\ PushAndContinue(ErrorRecord(fileIdx + 1, DecodeError))

Next ==
    \/ ClickNoFiles
    \/ ClickAnalyze
    \/ ReadResolve
    \/ ReadReject
    \/ DecodeResolve
    \/ DecodeNull

Spec == Init /\ [][Next]_vars

(***************************************************************************)
(* SpecOverlap: the analyzer page with a second click while analyzeFiles   *)
(* awaits readFileAsync or decodeQRCode.  Nothing disables the button, so  *)
(* the click handler starts another analyzeFiles with its own files and i  *)
(* and the same this.qrData.  At most two are in flight; the files of the  *)
(* second batch have names of their own.                                   *)
(***************************************************************************)
\* texts the decoder gives in the overlapping runs
OverlapContents == {<<"h", "i">>}

\* the name of the i-th file of the second batch
LaterName(i) == 100 + i

\* the click handler with n files while the first analyzeFiles is in flight
ClickOverlap ==
    /\ pc \in {"read", "decode"}
    /\ later.pc \in {"idle", "done"}
    /\ \E n \in 1..MaxFiles :
        later' = [pc |-> "read", nFiles |-> n, fileIdx |-> 0]
    /\ qrData' = <<>>
    /\ resultsArea' = EmptyResults
    /\ statusArea' = "warning_processing"
    /\ UNCHANGED <<pc, nFiles, fileIdx, mutVars, parseVars>>

\* PushAndContinue for the second analyzeFiles
LaterPushAndContinue(rec) ==
    LET qd == Append(qrData, rec)
    IN  /\ qrData' = qd
        /\ IF later.fileIdx + 1 < later.nFiles
           THEN /\ later' = [later EXCEPT !.pc = "read", !.fileIdx = @ + 1]
                /\ statusArea' = "warning_processing"
                /\ UNCHANGED resultsArea
           ELSE /\ later' = [later EXCEPT !.pc = "done", !.fileIdx = @ + 1]
                /\ resultsArea' = displayResults(qd)
                /\ statusArea' = "success"
        /\ UNCHANGED <<pc, nFiles, fileIdx, mutVars, parseVars>>

LaterReadResolve ==
    /\ later.pc = "read"
    /\ later' = [later EXCEPT !.pc = "decode"]
    /\ UNCHANGED <<pc, nFiles, fileIdx, qrData, resultsArea, statusArea, mutVars, parseVars>>

LaterReadReject ==
    /\ later.pc = "read"
    /\ LaterPushAndContinue(ErrorRecord(LaterName(later.fileIdx + 1), ReadError))

LaterDecodeResolve ==
    /\ later.pc = "decode"
    /\ \E content \in OverlapContents :
        LaterPushAndContinue(parseQRContent(content, LaterName(later.fileIdx + 1)))

LaterDecodeNull ==
    /\ later.pc = "decode"
    /\ LaterPushAndContinue(ErrorRecord(LaterName(later.fileIdx + 1), DecodeError))

\* DecodeResolve of the first analyzeFiles over the texts of this specification
DecodeResolveOverlap ==
    /\ pc = "decode"
    /\ \E content \in OverlapContents :
        PushAndContinue(parseQRContent(content, fileIdx + 1))

NextOverlap ==
    \/ ClickAnalyze
    \/ ClickOverlap
    \/ ReadResolve
    \/ ReadReject
    \/ DecodeResolveOverlap
    \/ DecodeNull
    \/ LaterReadResolve
    \/ LaterReadReject
    \/ LaterDecodeResolve
    \/ LaterDecodeNull

SpecOverlap == Init /\ [][NextOverlap]_vars

(***************************************************************************)
(* The mutator's output read by the analyzer: modifyCreateTime, then        *)
(* parseQRContent of the original text and of the rewritten text            *)
(***************************************************************************)
\* prefixes and "&"-joined segments of the texts that make the round trip
RtPre ==
    {<<>>,
     <<"?">>,
     <<"u", "?">>}

RtSeg ==
    {<<"i", "d", "=", "1">>,
     <<"x", "c", "r", "e", "a", "t", "e", "T", "i", "m", "e", "=", "2", "0", "2", "4", "-", "0", "1", "-", "0", "1", " ", "1", "0", ":", "0", "0", ":", "0", "0">>,
     <<"n", "o", "t", "e", "=", "c", "r", "e", "a", "t", "e", "T", "i", "m", "e", "=", "2", "0", "2", "4", "-", "0", "1", "-", "0", "1", "T", "1", "0", ":", "0", "0", ":", "0", "0">>,
     <<"c", "r", "e", "a", "t", "e", "T", "i", "m", "e", "=", "2", "0", "2", "4", "-", "0", "1", "-", "0", "1", " ", "2", "3", ":", "0", "0", ":", "0", "0">>,
     <<"c", "r", "e", "a", "t", "e", "T", "i", "m", "e", "=", "2", "0", "2", "4", "-", "0", "1", "-", "0", "1", " ", "0", "9", ":", "3", "0", ":", "0", "0">>}

RtInputs ==
    {pre \o s1 \o <<"&">> \o s2 : pre \in RtPre, s1 \in RtSeg, s2 \in RtSeg}
    \cup {pre \o s1 : pre \in RtPre, s1 \in RtSeg}

InitRoundTrip ==
    /\ mtInput \in RtInputs
    /\ mtOut = <<>>
    /\ deadline = <<>>
    /\ pqContent = mtInput
    /\ pqResult = <<>>
    /\ rtResult = <<>>
    /\ AnaRest0

\* the analyzer decodes the code made from the rewritten text
ParseOutput ==
    /\ mtOut # <<>>
    /\ rtResult # <<parseQRContent(MutCurrent, 1)>>
    /\ rtResult' = <<parseQRContent(MutCurrent, 1)>>
    /\ UNCHANGED <<pqContent, pqResult, mutVars, anaVars>>

NextRoundTrip == ExtendQRCodeDeadline \/ ParseContent \/ ParseOutput

SpecRoundTrip == InitRoundTrip /\ [][NextRoundTrip]_vars

(***************************************************************************)
(* Properties of modifyCreateTime (checked under SpecMutate)               *)
(***************************************************************************)
\* the shape the claims speak of, at position i of text: createTime=, a date
\* NNNN-NN-NN, one space or T, a two-digit hour, then :NN:NN
ShapeAt(text, i) ==
    /\ i >= 1 /\ i + 29 <= Len(text)
    /\ SubSeq(text, i, i + 10) = S_createTimeEq
    /\ \A k \in {11, 12, 13, 14, 16, 17, 19, 20, 22, 23, 25, 26, 28, 29} :
          text[i + k] \in Digits
    /\ text[i + 15] = "-" /\ text[i + 18] = "-"
    /\ text[i + 21] \in {" ", "T"}
    /\ text[i + 24] = ":" /\ text[i + 27] = ":"

HasShape(text) == \E i \in 1..Len(text) : ShapeAt(text, i)

FirstShapeAt(text, i) == ShapeAt(text, i) /\ \A j \in 1..(i - 1) : ~ShapeAt(text, j)

\* the two characters at the hour's place of the field at i, and their value
HourAt(text, i) == SubSeq(text, i + 22, i + 23)

HourValueAt(text, i) == 10 * DigitVal(text[i + 22]) + DigitVal(text[i + 23])

\* the text given to the n-th call and the text it returned
CallIn(n) == IF n = 1 THEN mtInput ELSE mtOut[n - 1]

CallOut(n) == mtOut[n]

\* C1: when the text holds the shape, the hour of its first occurrence becomes
\* (HH + 1) mod 24 written with two digits, and the createTime=, date,
\* separator and :minute:second of that occurrence stay; 23 becomes 00 with
\* the same date; from 05 two calls give 06 and then 07.
C1_HourBumped ==
    /\ \A n \in 1..Len(mtOut) : \A i \in 1..Len(CallIn(n)) :
          FirstShapeAt(CallIn(n), i) =>
            /\ Len(CallOut(n)) >= i + 29
            /\ SubSeq(CallOut(n), i, i + 21) = SubSeq(CallIn(n), i, i + 21)
            /\ SubSeq(CallOut(n), i + 24, i + 29) = SubSeq(CallIn(n), i + 24, i + 29)
            /\ CallOut(n)[i + 22] \in Digits /\ CallOut(n)[i + 23] \in Digits
            /\ HourValueAt(CallOut(n), i) = (HourValueAt(CallIn(n), i) + 1) % 24
            /\ (HourAt(CallIn(n), i) = <<"2", "3">> => HourAt(CallOut(n), i) = <<"0", "0">>)
    /\ \A i \in 1..Len(mtInput) :
          (Len(mtOut) = 2 /\ FirstShapeAt(mtInput, i) /\ HourAt(mtInput, i) = <<"0", "5">>)
            => /\ HourAt(mtOut[1], i) = <<"0", "6">>
               /\ HourAt(mtOut[2], i) = <<"0", "7">>

\* hour 23 was bumped to 00 and then to 01
C1_Witness ==
    /\ Len(mtOut) = 2
    /\ \E i \in 1..Len(mtInput) :
          /\ FirstShapeAt(mtInput, i)
          /\ HourAt(mtInput, i) = <<"2", "3">>
          /\ HourAt(mtOut[1], i) = <<"0", "0">>
          /\ HourAt(mtOut[2], i) = <<"0", "1">>

\* C2: when the text holds the shape, the result has the length of the text
\* and is the text outside the 30 characters of the first occurrence (a later
\* occurrence included).
C2_OnlyFirstSpanReplaced ==
    \A n \in 1..Len(mtOut) : \A i \in 1..Len(CallIn(n)) :
        FirstShapeAt(CallIn(n), i) =>
          /\ Len(CallOut(n)) = Len(CallIn(n))
          /\ \A k \in 1..Len(CallIn(n)) :
                (k < i \/ k > i + 29) => CallOut(n)[k] = CallIn(n)[k]

\* a text with a prefix and two occurrences: the first was changed, the
\* second one is still there as it was
C2_Witness ==
    /\ Len(mtOut) >= 1
    /\ \E i, j \in 1..Len(mtInput) :
          /\ i > 1 /\ j >= i + 30
          /\ FirstShapeAt(mtInput, i) /\ ShapeAt(mtInput, j)
          /\ mtOut[1] # mtInput
          /\ SubSeq(mtOut[1], j, j + 29) = SubSeq(mtInput, j, j + 29)

\* C3: a text that holds the shape nowhere is returned as it is (and no
\* deadline is displayed for it).
C3_NoMatchUnchanged ==
    /\ \A n \in 1..Len(mtOut) : ~HasShape(CallIn(n)) => CallOut(n) = CallIn(n)
    /\ (mtOut # <<>> /\ ~HasShape(CallIn(Len(mtOut)))) => deadline = <<>>

\* a three-digit hour, and a text without the field, came back unchanged
C3_Witness ==
    /\ Len(mtOut) >= 1
    /\ ~HasShape(mtInput)
    /\ mtOut[1] = mtInput
    /\ \E i \in 1..Len(mtInput) :
          /\ StartsAt(mtInput, i, S_createTimeEq)
          /\ i + 24 <= Len(mtInput)
          /\ \A k \in {22, 23, 24} : mtInput[i + k] \in Digits

(***************************************************************************)
(* Properties of parseQRContent (checked under SpecParse)                  *)
(***************************************************************************)
\* the text after the first occurrence of c
AfterFirst(s, c) == SubSeq(s, IndexOf(s, c) + 1, Len(s))

\* the key and the value of a segment split at its first "="
SegKey(seg) == SubSeq(seg, 1, IndexOf(seg, "=") - 1)

SegValue(seg) == SubSeq(seg, IndexOf(seg, "=") + 1, Len(seg))

\* a segment key=value with a key, written without "%", "+" or "?"
PlainSegment(seg) ==
    /\ IndexOf(seg, "=") > 1
    /\ \A k \in 1..Len(seg) : seg[k] \notin {"%", "+", "?", "&"}

\* the segments of a text key=value&... or ?key=value&...
WellFormedSegments(content) ==
    Split(IF content # <<>> /\ content[1] = "?" THEN Tail(content) ELSE content, "&")

WellFormed(content) ==
    \A k \in 1..Len(WellFormedSegments(content)) :
        PlainSegment(WellFormedSegments(content)[k])

\* segs[k] is the last segment of segs with its key
LastOfKey(segs, k) ==
    \A j \in (k + 1)..Len(segs) :
        PlainSegment(segs[j]) => SegKey(segs[j]) # SegKey(segs[k])

\* the map holds exactly the pairs of the plain segments, the last one of a key
\* deciding its value
HoldsExactly(params, segs) ==
    /\ DOMAIN params = {SegKey(segs[k]) : k \in {j \in 1..Len(segs) : PlainSegment(segs[j])}}
    /\ \A k \in 1..Len(segs) :
          (PlainSegment(segs[k]) /\ LastOfKey(segs, k))
            => params[SegKey(segs[k])] = SegValue(segs[k])

\* C4: for a well-formed text the map holds exactly the pairs of the text, each
\* segment split at its first "=" (the value may hold "="), the last
\* occurrence of a key deciding.
C4_ExactPairs ==
    (pqResult # <<>> /\ WellFormed(pqContent))
        => HoldsExactly(pqResult[1].params, WellFormedSegments(pqContent))

\* C5: with a "?" in the text the query string is all that follows the first
\* "?": every key=value segment after it, also one behind a second "?", is
\* in the map.
C5_AllAfterFirstQuestionMark ==
    (pqResult # <<>> /\ Includes(pqContent, "?"))
        => LET segs == Split(AfterFirst(pqContent, "?"), "&")
           IN  \A k \in 1..Len(segs) :
                 (IndexOf(segs[k], "=") > 1 /\ ~Includes(segs[k], "%")
                                            /\ ~Includes(segs[k], "+"))
                   => SegKey(segs[k]) \in DOMAIN pqResult[1].params

\* the segments of a text with at most one "?"
SegmentsOf(content) ==
    Split(IF Includes(content, "?") THEN AfterFirst(content, "?") ELSE content, "&")

\* C6: extraction never fails: a segment with a malformed escape or without
\* "=" is skipped, no error is recorded, the well-formed segments before and
\* after it are in the map; a text with neither "?" nor "=" gives the empty map.
C6_NeverFails ==
    (pqResult # <<>> /\ ~Includes(AfterFirst(pqContent, "?"), "?"))
        => LET segs == SegmentsOf(pqContent)
               params == pqResult[1].params
           IN  /\ pqResult[1].error = NoError
               /\ \A k \in 1..Len(segs) :
                     PlainSegment(segs[k]) => SegKey(segs[k]) \in DOMAIN params
               /\ \A k \in 1..Len(segs) :
                     (~Includes(segs[k], "=") /\ ~Includes(segs[k], "%"))
                       => \/ segs[k] \notin DOMAIN params
                          \/ \E j \in 1..Len(segs) :
                                PlainSegment(segs[j]) /\ SegKey(segs[j]) = segs[k]
               /\ (~Includes(pqContent, "?") /\ ~Includes(pqContent, "="))
                     => DOMAIN params = {}

(***************************************************************************)
(* Properties of the comparison report (checked under Spec)                *)
(***************************************************************************)
\* the report that displayResults showed for the batch in this.qrData
ReportShown == pc = "done" /\ resultsArea.shown

Report == resultsArea.comparison

\* the value of record k for a key, the empty string when it has none
ValueOf(k, key) ==
    IF key \in DOMAIN qrData[k].params THEN qrData[k].params[key] ELSE <<>>

KeyUnion == UNION {DOMAIN qrData[k].params : k \in 1..Len(qrData)}

RowsOf(key) == {r \in 1..Len(Report.rows) : Report.rows[r].param = key}

S_signature == <<"s", "i", "g", "n", "a", "t", "u", "r", "e">>

NonErrorRecords == {k \in 1..Len(qrData) : qrData[k].error = NoError}

\* C8: with fewer than 2 records decoded without error the report has no
\* rows, no deltas, and shows the insufficient-data paragraph.
C8_TrivialBelowTwoDecoded ==
    (ReportShown /\ Cardinality(NonErrorRecords) < 2) =>
        /\ Report.rows = <<>>
        /\ Report.deltas = <<>>
        /\ Report.insufficient

\* the records whose createTime parsed to an instant, and that instant
TimedRecords ==
    {k \in 1..Len(qrData) :
        qrData[k].parsedTime # <<>> /\ qrData[k].parsedTime[1].parsed}

InstantOf(k) == qrData[k].parsedTime[1].timestamp

\* the records of the delta list in the order the list gives them
DeltaChain ==
    IF Report.deltas = <<>> THEN <<>>
    ELSE <<Report.deltas[1].from>>
            \o [j \in 1..Len(Report.deltas) |-> Report.deltas[j].to]

\* C9: the deltas are over exactly the records with a valid instant: none for
\* fewer than 2 of them, else one per adjacent pair of these records in
\* ascending instant with ties in record order, each next - current >= 0; the
\* records left out still have their column in every row.
C9_DeltasOverTimedRecords ==
    ReportShown =>
        LET k == Cardinality(TimedRecords)
            deltas == Report.deltas
            chain == DeltaChain
        IN  /\ k < 2 => deltas = <<>>
            /\ k >= 2 =>
                 /\ Len(deltas) = k - 1
                 /\ \A j \in 1..(Len(deltas) - 1) : deltas[j].to = deltas[j + 1].from
                 /\ {chain[j] : j \in 1..Len(chain)} = TimedRecords
                 /\ \A j \in 1..Len(deltas) :
                       /\ deltas[j].diffMs = InstantOf(deltas[j].to) - InstantOf(deltas[j].from)
                       /\ deltas[j].diffMs >= 0
                       /\ deltas[j].diffMs = 0 => deltas[j].from < deltas[j].to
            /\ \A r \in 1..Len(Report.rows) :
                 /\ Len(Report.rows[r].values) = Len(qrData)
                 /\ \A n \in 1..Len(qrData) :
                       Report.rows[r].values[n] = ValueOf(n, Report.rows[r].param)

\* three records: the second has a createTime that did not parse and is in the
\* createTime row, the first and the third have the same instant and make
\* the one delta, in record order
C9_Witness ==
    /\ ReportShown /\ Len(qrData) = 3
    /\ TimedRecords = {1, 3}
    /\ S_createTime \in DOMAIN qrData[2].params
    /\ InstantOf(1) = InstantOf(3)
    /\ Len(Report.deltas) = 1
    /\ Report.deltas[1].from = 1 /\ Report.deltas[1].to = 3
    /\ \E r \in RowsOf(S_createTime) :
          Report.rows[r].values[2] = qrData[2].params[S_createTime]

\* the integer nearest to x / d, a half rounded up (x >= 0, d > 0)
NearestHalfUp(x, d) ==
    CHOOSE n \in 0..(x \div d + 1) : 2 * n * d - d <= 2 * x /\ 2 * x < 2 * n * d + d

\* C10: a delta is shown in hours, as round(delta / 3600000), exactly when
\* that is not zero, else in minutes as round(delta / 60000); 30 minutes is
\* shown as 1 hour, less than 30 minutes in minutes, 150 minutes as 3 hours.
C10_HoursWhenNonzero ==
    ReportShown =>
        \A j \in 1..Len(Report.deltas) :
            LET d == Report.deltas[j]
                hours == NearestHalfUp(d.diffMs, 3600000)
                minutes == NearestHalfUp(d.diffMs, 60000)
            IN  /\ d.diffMs >= 0
                /\ hours # 0 => (d.unit = "hours" /\ d.amount = hours)
                /\ hours = 0 => (d.unit = "minutes" /\ d.amount = minutes)
                /\ d.diffMs = 30 * 60000 => (d.unit = "hours" /\ d.amount = 1)
                /\ d.diffMs < 30 * 60000 => d.unit = "minutes"
                /\ d.diffMs = 150 * 60000 => (d.unit = "hours" /\ d.amount = 3)

\* deltas of exactly 30 minutes and of 29 minutes 59 seconds in one report
C10_Witness ==
    /\ ReportShown
    /\ \E j \in 1..Len(Report.deltas) :
          /\ Report.deltas[j].diffMs = 1800000
          /\ Report.deltas[j].unit = "hours" /\ Report.deltas[j].amount = 1
    /\ \E j \in 1..Len(Report.deltas) :
          /\ Report.deltas[j].diffMs = 1799000
          /\ Report.deltas[j].unit = "minutes" /\ Report.deltas[j].amount = 30

(***************************************************************************)
(* Properties of a batch analysis (checked under SpecOverlap)              *)
(***************************************************************************)
\* the step in which the first, or the second, analyzeFiles ends
FirstEnds == pc # "done" /\ pc' = "done"

LaterEnds == later.pc # "done" /\ later'.pc = "done"

\* a record of a file that could not be read or decoded
FailureRecorded(rec) ==
    rec.error \in {ReadError, DecodeError}
        => (rec.rawContent = <<>> /\ DOMAIN rec.params = {})

\* the result sequence holds the n files named by name, one record each, in
\* the order of the files
HoldsBatch(qd, n, name(_)) ==
    /\ Len(qd) = n
    /\ \A i \in 1..Len(qd) : qd[i].fileName = name(i) /\ FailureRecorded(qd[i])

FirstName(i) == i

\* C11: an analysis of N files ends with exactly N records, the i-th of the
\* i-th file, whichever files failed; a failure is on its own record (error
\* set, no raw content, no parameter) and the results are displayed.
C11_BatchEndsWithItsRecords ==
    [][/\ FirstEnds => (HoldsBatch(qrData', nFiles, FirstName) /\ resultsArea'.shown)
       /\ LaterEnds => (HoldsBatch(qrData', later.nFiles, LaterName) /\ resultsArea'.shown)]_vars

\* the file names of the records displayResults showed
DisplayedNames ==
    [k \in 1..Len(resultsArea.individual) |-> resultsArea.individual[k].fileName]

\* C12: what a run displays is one record per file of its own batch and no
\* record of another run, also when a click came while a run was awaiting.
C12_DisplaysOwnBatchOnly ==
    [][/\ FirstEnds => DisplayedNames' = [k \in 1..nFiles |-> k]
       /\ LaterEnds => DisplayedNames' = [k \in 1..later.nFiles |-> LaterName(k)]]_vars

(***************************************************************************)
(* Properties of the round trip (checked under SpecRoundTrip)              *)
(***************************************************************************)
\* C13: the parameters extracted from the output of modifyCreateTime have the
\* keys of the parameters extracted from the original text, and every
\* parameter other than createTime has the value it had.
C13_RoundTripKeepsOtherParameters ==
    (pqResult # <<>> /\ rtResult # <<>>)
        => LET before == pqResult[1].params
               after  == rtResult[1].params
           IN  /\ DOMAIN after = DOMAIN before
               /\ \A k \in DOMAIN before :
                      k # S_createTime => after[k] = before[k]

====
